---- MODULE Spec2Model ----
(***************************************************************************)
(* The crop-recommendation repository as a state machine.                  *)
(*                                                                         *)
(*   fix_dataset.py  reads the raw dataset, rewrites twelve feature        *)
(*                   columns of every row from crop and season profiles,   *)
(*                   and saves corrected_crop_dataset.csv                  *)
(*   main.py         fits a RandomForestClassifier on the corrected        *)
(*                   dataset and saves the model and the label encoder     *)
(*   predict.py      loads both artifacts, asks for twelve feature values  *)
(*                   and prints the three most probable crops              *)
(*                                                                         *)
(* Conventions.  A Python str is a sequence of one-character strings, so   *)
(* strip() and lower() are computed character by character.  A float is    *)
(* an integer number of thousandths (60.0 is 60000, 5.5 is 5500), so       *)
(* round(x, 1) rounds to a multiple of 100 and round(x, 2) to a multiple   *)
(* of 10.  A pandas Series (one row) is a sequence of <<label, value>>     *)
(* pairs in index order; a DataFrame is [columns, rows].                   *)
(***************************************************************************)
EXTENDS Integers, Sequences, FiniteSets, TLC

VARIABLES
    input_csv,      \* final_balanced_crop_dataset_4600_all_districts.csv: Absent or a DataFrame
    output_csv,     \* corrected_crop_dataset.csv: Absent or a DataFrame
    df,             \* fix_dataset: the DataFrame read from input_csv
    results,        \* fix_dataset: the rows update_row has returned so far within df.apply
    df_fixed,       \* fix_dataset: the result of df.apply
    pc,             \* fix_dataset: position in the function
    console,        \* fix_dataset: what was reported last (print or traceback)
    rng,            \* state of the shared generator of the random module
    draws,          \* number of random.uniform calls made so far
    locals,         \* update_row: crop, profile, season, w_profile of its last call
    model_pkl,      \* crop_model_final.pkl with label_encoder.pkl: Absent or the fitted pair
    train_pc,       \* main.py: outcome of main()
    predict_pc,     \* predict.py: outcome of predict_crop()
    encoder,        \* predict.py: classes_ of the encoder it loaded
    user_input,     \* predict.py: what the user types at the twelve prompts
    features_df,    \* predict.py: columns of the one-row frame passed to predict_proba
    probabilities,  \* predict.py: model.predict_proba(features_df)[0]
    top_3_indices,  \* predict.py: np.argsort(probabilities)[-3:][::-1]
    printed         \* predict.py: the recommendation lines printed

fix_vars == <<input_csv, df, results, df_fixed, pc, console, rng, draws, locals>>
ml_vars == <<model_pkl, train_pc, predict_pc, encoder, user_input, features_df,
             probabilities, top_3_indices, printed>>
vars == <<input_csv, output_csv, df, results, df_fixed, pc, console, rng, draws, locals,
          model_pkl, train_pc, predict_pc, encoder, user_input, features_df,
          probabilities, top_3_indices, printed>>

(***************************************************************************)
(* Bounds of the model.                                                    *)
(***************************************************************************)
\* most rows of a raw dataset whose rows are drawn from SampleRows
MaxRows == 2
\* random.random() returns k / RandRes for k in 0 .. RandRes
RandRes == 16
\* most classes of a classifier stored before the run
MaxClasses == 4
\* predict_proba returns multiples of 1 / Votes
Votes == 4

\* a file that is not on disk; a DataFrame on disk or in memory is
\* [exists |-> TRUE, columns |-> <<...>>, rows |-> <<...>>]
Absent == [exists |-> FALSE]
\* a local variable that has not been assigned
Unset == [exists |-> FALSE]
\* Python None where a list is otherwise stored
None == <<>>

(***************************************************************************)
(* Python str: strip() and lower().                                        *)
(***************************************************************************)
UpperChars == <<"A", "B", "C", "D", "E", "F", "G", "H", "I", "J", "K", "L", "M",
                "N", "O", "P", "Q", "R", "S", "T", "U", "V", "W", "X", "Y", "Z">>
LowerChars == <<"a", "b", "c", "d", "e", "f", "g", "h", "i", "j", "k", "l", "m",
                "n", "o", "p", "q", "r", "s", "t", "u", "v", "w", "x", "y", "z">>
Whitespace == {" ", "\t", "\n"}

char_lower(c) ==
    IF \E i \in 1..Len(UpperChars) : UpperChars[i] = c
    THEN LowerChars[CHOOSE i \in 1..Len(UpperChars) : UpperChars[i] = c]
    ELSE c

\* str.lower()
lower(s) == [i \in 1..Len(s) |-> char_lower(s[i])]

RECURSIVE lstrip(_)
lstrip(s) == IF s # <<>> /\ Head(s) \in Whitespace THEN lstrip(Tail(s)) ELSE s

RECURSIVE rstrip(_)
rstrip(s) ==
    IF s # <<>> /\ s[Len(s)] \in Whitespace THEN rstrip(SubSeq(s, 1, Len(s) - 1)) ELSE s

\* str.strip()
strip(s) == rstrip(lstrip(s))

\* a missing cell (float nan) and str() of a cell
NaN == <<"NaN">>
str(v) == IF v = NaN THEN <<"n", "a", "n">> ELSE v

(***************************************************************************)
(* 1. Crop scientific profiles:                                            *)
(*    [N_min, N_max, P_min, P_max, K_min, K_max, T_min, T_max,             *)
(*     H_min, H_max, pH_min, pH_max, rain_min, rain_max]                   *)
(***************************************************************************)
crop_profiles ==
  << [key |-> <<"R", "i", "c", "e">>,
      profile |-> <<60000, 90000, 35000, 60000, 35000, 45000, 20000, 27000, 80000, 89000, 5500, 7000, 180000, 300000>>],
     [key |-> <<"C", "o", "c", "o", "n", "u", "t">>,
      profile |-> <<20000, 40000, 15000, 30000, 25000, 35000, 25000, 29000, 90000, 99000, 5000, 6500, 130000, 230000>>],
     [key |-> <<"S", "u", "g", "a", "r", "c", "a", "n", "e">>,
      profile |-> <<90000, 120000, 50000, 70000, 40000, 60000, 25000, 35000, 80000, 90000, 6000, 7500, 150000, 220000>>],
     [key |-> <<"C", "o", "t", "t", "o", "n">>,
      profile |-> <<100000, 140000, 40000, 60000, 20000, 30000, 22000, 29000, 70000, 85000, 6000, 7500, 60000, 110000>>],
     [key |-> <<"M", "a", "i", "z", "e">>,
      profile |-> <<60000, 90000, 40000, 60000, 18000, 25000, 18000, 27000, 55000, 70000, 5500, 7000, 60000, 100000>>],
     [key |-> <<"B", "a", "n", "a", "n", "a">>,
      profile |-> <<90000, 110000, 70000, 90000, 45000, 55000, 25000, 30000, 75000, 85000, 5800, 6800, 90000, 120000>>],
     [key |-> <<"W", "h", "e", "a", "t">>,
      profile |-> <<30000, 50000, 50000, 70000, 30000, 45000, 15000, 23000, 50000, 70000, 6000, 7000, 40000, 80000>>],
     [key |-> <<"M", "u", "s", "t", "a", "r", "d">>,
      profile |-> <<20000, 40000, 45000, 60000, 20000, 30000, 10000, 20000, 30000, 50000, 5500, 7000, 30000, 60000>>],
     [key |-> <<"P", "o", "t", "a", "t", "o">>,
      profile |-> <<50000, 70000, 40000, 60000, 40000, 55000, 12000, 22000, 50000, 65000, 5000, 6000, 40000, 70000>>],
     [key |-> <<"B", "e", "n", "g", "a", "l", " ", "G", "r", "a", "m">>,
      profile |-> <<20000, 40000, 55000, 75000, 35000, 45000, 18000, 25000, 20000, 40000, 6000, 7500, 30000, 60000>>],
     [key |-> <<"T", "o", "o", "r">>,
      profile |-> <<25000, 45000, 55000, 75000, 25000, 35000, 25000, 30000, 40000, 60000, 5500, 7000, 60000, 90000>>],
     [key |-> <<"M", "o", "o", "n", "g">>,
      profile |-> <<15000, 30000, 45000, 65000, 20000, 30000, 25000, 32000, 50000, 70000, 6000, 7200, 40000, 70000>>],
     [key |-> <<"U", "r", "a", "d">>,
      profile |-> <<15000, 30000, 50000, 70000, 20000, 30000, 25000, 32000, 55000, 75000, 6000, 7500, 40000, 75000>>],
     [key |-> <<"S", "o", "y", "b", "e", "a", "n">>,
      profile |-> <<30000, 50000, 60000, 80000, 35000, 45000, 20000, 30000, 40000, 70000, 6000, 7000, 50000, 100000>>],
     [key |-> <<"B", "a", "j", "r", "a">>,
      profile |-> <<10000, 30000, 20000, 40000, 10000, 20000, 25000, 35000, 20000, 40000, 6000, 7500, 20000, 45000>>],
     [key |-> <<"S", "o", "r", "g", "h", "u", "m">>,
      profile |-> <<30000, 50000, 30000, 50000, 25000, 35000, 26000, 34000, 30000, 50000, 6000, 7000, 35000, 65000>>],
     [key |-> <<"R", "a", "g", "i">>,
      profile |-> <<10000, 30000, 20000, 40000, 15000, 25000, 26000, 34000, 20000, 40000, 5000, 7000, 30000, 60000>>],
     [key |-> <<"G", "r", "o", "u", "n", "d", "n", "u", "t">>,
      profile |-> <<30000, 50000, 40000, 60000, 40000, 50000, 24000, 32000, 40000, 60000, 5500, 7000, 50000, 90000>>],
     [key |-> <<"T", "o", "b", "a", "c", "c", "o">>,
      profile |-> <<40000, 60000, 30000, 50000, 30000, 50000, 22000, 28000, 50000, 70000, 5500, 6500, 60000, 90000>>],
     [key |-> <<"M", "i", "r", "c", "h", "i">>,
      profile |-> <<35000, 55000, 50000, 70000, 40000, 60000, 20000, 30000, 40000, 65000, 5500, 6800, 50000, 90000>>],
     [key |-> <<"T", "o", "m", "a", "t", "o">>,
      profile |-> <<40000, 60000, 45000, 65000, 50000, 70000, 18000, 26000, 60000, 80000, 6000, 7000, 40000, 90000>>],
     [key |-> <<"O", "n", "i", "o", "n">>,
      profile |-> <<50000, 70000, 40000, 60000, 50000, 70000, 15000, 25000, 50000, 70000, 6000, 7000, 30000, 60000>>],
     [key |-> <<"S", "u", "n", "f", "l", "o", "w", "e", "r">>,
      profile |-> <<50000, 70000, 50000, 70000, 35000, 45000, 25000, 30000, 40000, 60000, 6000, 7500, 40000, 75000>>] >>

crop_season_map ==
  << [key |-> <<"R", "i", "c", "e">>, season |-> "Kharif"],
     [key |-> <<"C", "o", "t", "t", "o", "n">>, season |-> "Kharif"],
     [key |-> <<"M", "a", "i", "z", "e">>, season |-> "Kharif"],
     [key |-> <<"S", "u", "g", "a", "r", "c", "a", "n", "e">>, season |-> "Kharif"],
     [key |-> <<"B", "a", "j", "r", "a">>, season |-> "Kharif"],
     [key |-> <<"S", "o", "y", "b", "e", "a", "n">>, season |-> "Kharif"],
     [key |-> <<"U", "r", "a", "d">>, season |-> "Kharif"],
     [key |-> <<"M", "o", "o", "n", "g">>, season |-> "Kharif"],
     [key |-> <<"G", "r", "o", "u", "n", "d", "n", "u", "t">>, season |-> "Kharif"],
     [key |-> <<"T", "o", "o", "r">>, season |-> "Kharif"],
     [key |-> <<"R", "a", "g", "i">>, season |-> "Kharif"],
     [key |-> <<"J", "u", "t", "e">>, season |-> "Kharif"],
     [key |-> <<"W", "h", "e", "a", "t">>, season |-> "Rabi"],
     [key |-> <<"M", "u", "s", "t", "a", "r", "d">>, season |-> "Rabi"],
     [key |-> <<"B", "e", "n", "g", "a", "l", " ", "G", "r", "a", "m">>, season |-> "Rabi"],
     [key |-> <<"P", "o", "t", "a", "t", "o">>, season |-> "Rabi"],
     [key |-> <<"T", "o", "b", "a", "c", "c", "o">>, season |-> "Rabi"],
     [key |-> <<"T", "o", "m", "a", "t", "o">>, season |-> "Rabi"],
     [key |-> <<"O", "n", "i", "o", "n">>, season |-> "Rabi"],
     [key |-> <<"S", "u", "n", "f", "l", "o", "w", "e", "r">>, season |-> "Zaid"],
     [key |-> <<"B", "a", "n", "a", "n", "a">>, season |-> "Zaid"],
     [key |-> <<"C", "o", "c", "o", "n", "u", "t">>, season |-> "Zaid"],
     [key |-> <<"M", "i", "r", "c", "h", "i">>, season |-> "Zaid"] >>

season_weather ==
  << [key |-> "Kharif", profile |-> <<2500, 5500, 180000, 220000, 4000, 6000>>],
     [key |-> "Rabi", profile |-> <<1000, 2500, 150000, 190000, 2500, 4000>>],
     [key |-> "Zaid", profile |-> <<3000, 6500, 230000, 280000, 6000, 8500>>],
     [key |-> "Default", profile |-> <<2000, 4000, 180000, 200000, 4000, 5000>>] >>

default_profile ==
    <<40000, 60000, 40000, 60000, 40000, 60000, 20000, 30000, 50000, 70000,
      6000, 7000, 100000, 200000>>

(***************************************************************************)
(* dict.get and the case-insensitive scan of update_row.                   *)
(***************************************************************************)
\* d.get(key, default): the value stored under key, or default
dict_get(d, key, field, default) ==
    IF \E i \in 1..Len(d) : d[i].key = key
    THEN d[CHOOSE i \in 1..Len(d) : d[i].key = key][field]
    ELSE default

\* for k in crop_profiles: if k.lower() == crop.lower(): profile = crop_profiles[k]; break
RECURSIVE scan_profiles(_, _)
scan_profiles(crop, i) ==
    IF i > Len(crop_profiles) THEN None
    ELSE IF lower(crop_profiles[i].key) = lower(crop) THEN crop_profiles[i].profile
    ELSE scan_profiles(crop, i + 1)

\* the lookup without its case-insensitive scan
lookup_profile_exact(crop) ==
    LET exact == dict_get(crop_profiles, crop, "profile", None)
    IN  IF exact # None THEN exact ELSE default_profile

\* profile of a stripped crop name: exact key, else first key equal in lower case, else default
lookup_profile(crop) ==
    LET exact == dict_get(crop_profiles, crop, "profile", None)
        scanned == IF exact = None THEN scan_profiles(crop, 1) ELSE exact
    IN  IF scanned = None THEN default_profile ELSE scanned

\* a season lookup that falls back to a key equal in lower case
lookup_season_nocase(crop) ==
    IF \E i \in 1..Len(crop_season_map) : lower(crop_season_map[i].key) = lower(crop)
    THEN crop_season_map[CHOOSE i \in 1..Len(crop_season_map) :
                             lower(crop_season_map[i].key) = lower(crop)].season
    ELSE "Default"

\* crop_season_map.get(crop, 'Default')
lookup_season(crop) ==
    dict_get(crop_season_map, crop, "season", "Default")

\* season_weather.get(season, season_weather['Default'])
lookup_weather(season) ==
    dict_get(season_weather, season, "profile",
             dict_get(season_weather, "Default", "profile", None))

(***************************************************************************)
(* random.uniform and round.                                               *)
(***************************************************************************)
\* the generator's next state after one call of random.random()
next_rng(s) == (5 * s + 3) % (RandRes + 1)

\* a draw with jitter added after it
uniform_jitter(a, b, s) == a + ((b - a) * s) \div RandRes + 50

\* random.uniform(a, b) = a + (b - a) * random.random(), random.random() = s / RandRes
uniform(a, b, s) == a + ((b - a) * s) \div RandRes

\* round(x, ndigits) for x >= 0, q = 100 for 1 digit and 10 for 2: to the nearest
\* multiple of q, a tie to the even one
round_to(x, q) ==
    LET lo == (x \div q) * q
        r == x - lo
    IN  IF 2 * r < q THEN lo
        ELSE IF 2 * r > q THEN lo + q
        ELSE IF (x \div q) % 2 = 0 THEN lo ELSE lo + q

(***************************************************************************)
(* pandas Series: row[label] and row[label] = value.                       *)
(***************************************************************************)
labels(row) == [i \in 1..Len(row) |-> row[i][1]]
has_label(row, c) == \E i \in 1..Len(row) : row[i][1] = c
get_item(row, c) == row[CHOOSE i \in 1..Len(row) : row[i][1] = c][2]
set_item(row, c, v) ==
    IF has_label(row, c)
    THEN [i \in 1..Len(row) |-> IF row[i][1] = c THEN <<c, v>> ELSE row[i]]
    ELSE Append(row, <<c, v>>)

(***************************************************************************)
(* 3. update_row.  st = [row, rng, draws] is threaded through the          *)
(* assignments in the order the code makes them.                           *)
(***************************************************************************)
\* row[col] = round(random.uniform(a, b), ndigits)
assign_uniform(st, col, a, b, q) ==
    [row |-> set_item(st.row, col, round_to(uniform(a, b, st.rng), q)),
     rng |-> next_rng(st.rng),
     draws |-> st.draws + 1]

\* Assign soil & climate values
assign_profile_fields(st, profile) ==
    LET s1 == assign_uniform(st, "N", profile[1], profile[2], 100)
        s2 == assign_uniform(s1, "P", profile[3], profile[4], 100)
        s3 == assign_uniform(s2, "K", profile[5], profile[6], 100)
        s4 == assign_uniform(s3, "temperature_c", profile[7], profile[8], 100)
        s5 == assign_uniform(s4, "humidity_pct", profile[9], profile[10], 100)
        s6 == assign_uniform(s5, "pH", profile[11], profile[12], 10)
    IN  assign_uniform(s6, "rainfall_mm", profile[13], profile[14], 100)

\* soil_moisture drawn on its own around 0.45 of the humidity range [20, 99]
assign_derived_drawn(st) ==
    LET s1 == assign_uniform(st, "organic_carbon", 300, 800, 10)
    IN  assign_uniform(s1, "soil_moisture", 9000, 44550, 100)

\* Derived features
assign_derived(st) ==
    LET s1 == assign_uniform(st, "organic_carbon", 300, 800, 10)
    IN  [s1 EXCEPT !.row =
            set_item(s1.row, "soil_moisture",
                     round_to(get_item(s1.row, "humidity_pct") * 45, 10000) \div 100)]

\* Season-based features
assign_season_fields(st, w_profile) ==
    LET s1 == assign_uniform(st, "wind_speed_ms", w_profile[1], w_profile[2], 10)
        s2 == assign_uniform(s1, "solar_radiation_wm2", w_profile[3], w_profile[4], 10)
    IN  assign_uniform(s2, "evapotranspiration_mm", w_profile[5], w_profile[6], 10)

\* update_row that stores the stripped crop name back into the row
update_row_strip(row, s, n) ==
    LET crop == strip(str(get_item(row, "crop")))
        profile == lookup_profile(crop)
        season == lookup_season(crop)
        w_profile == lookup_weather(season)
        st0 == [row |-> set_item(row, "crop", crop), rng |-> s, draws |-> n]
        st3 == assign_season_fields(assign_derived(assign_profile_fields(st0, profile)),
                                    w_profile)
    IN  [row |-> st3.row, rng |-> st3.rng, draws |-> st3.draws,
         locals |-> [exists |-> TRUE, crop |-> crop, profile |-> profile,
                     season |-> season, w_profile |-> w_profile]]

\* update_row(row) with the generator in state s after n draws; needs row['crop']
update_row(row, s, n) ==
    LET crop == strip(str(get_item(row, "crop")))
        profile == lookup_profile(crop)
        season == lookup_season(crop)
        w_profile == lookup_weather(season)
        st0 == [row |-> row, rng |-> s, draws |-> n]
        st3 == assign_season_fields(assign_derived(assign_profile_fields(st0, profile)),
                                    w_profile)
    IN  [row |-> st3.row, rng |-> st3.rng, draws |-> st3.draws,
         locals |-> [exists |-> TRUE, crop |-> crop, profile |-> profile,
                     season |-> season, w_profile |-> w_profile]]

(***************************************************************************)
(* fix_dataset, one action per statement that can end the run.             *)
(***************************************************************************)
\* a frame with the given columns and rows
frame(columns, rows) == [exists |-> TRUE, columns |-> columns, rows |-> rows]

\* df = pd.read_csv(...)
ReadCsv ==
    /\ pc = "start"
    /\ input_csv.exists
    /\ df' = input_csv
    /\ console' = "Original Data Shape"
    /\ pc' = "apply"
    /\ UNCHANGED <<input_csv, output_csv, results, df_fixed, rng, draws, locals, ml_vars>>

\* except FileNotFoundError: print("Error: Input file not found."); return
ReadCsvNotFound ==
    /\ pc = "start"
    /\ ~input_csv.exists
    /\ console' = "Error: Input file not found."
    /\ pc' = "returned"
    /\ UNCHANGED <<input_csv, output_csv, df, results, df_fixed, rng, draws, locals, ml_vars>>

\* df.apply stopping after the first row it has passed to update_row
apply_finished_early(done, rows) == Len(done) >= 1

\* df.apply has passed every row of the frame to update_row
apply_finished(done, rows) == Len(done) = Len(rows)

\* df.apply(update_row, axis=1) on a frame with rows: the next row
ApplyRow ==
    /\ pc = "apply"
    /\ Len(results) < Len(df.rows)
    /\ has_label(df.rows[Len(results) + 1], "crop")
    /\ \E r \in {update_row(df.rows[Len(results) + 1], rng, draws)} :
        \E done \in {Append(results, r.row)} :
               /\ results' = done
               /\ rng' = r.rng
               /\ draws' = r.draws
               /\ locals' = r.locals
               /\ IF apply_finished(done, df.rows)
                  THEN /\ df_fixed' = frame(labels(done[1]), done)
                       /\ pc' = "save"
                  ELSE UNCHANGED <<df_fixed, pc>>
    /\ UNCHANGED <<input_csv, output_csv, df, console, ml_vars>>

\* df.apply on a frame with rows and no crop column: row['crop'] raises KeyError,
\* which nothing catches; the interpreter prints the traceback and exits
ApplyKeyError ==
    /\ pc = "apply"
    /\ Len(results) < Len(df.rows)
    /\ ~has_label(df.rows[Len(results) + 1], "crop")
    /\ console' = "KeyError: 'crop'"
    /\ pc' = "raised"
    /\ UNCHANGED <<input_csv, output_csv, df, results, df_fixed, rng, draws, locals, ml_vars>>

\* df.apply on a frame without rows: pandas calls update_row once on a Series of
\* NaN indexed by the columns to infer the result's shape, ignores any exception
\* it raises, and since a Series came back (or nothing did) returns a copy of df
ApplyEmpty ==
    /\ pc = "apply"
    /\ Len(df.rows) = 0
    /\ \E probe \in {[i \in 1..Len(df.columns) |-> <<df.columns[i], NaN>>]} :
        IF has_label(probe, "crop")
        THEN \E r \in {update_row(probe, rng, draws)} :
                 /\ rng' = r.rng
                 /\ draws' = r.draws
                 /\ locals' = r.locals
        ELSE UNCHANGED <<rng, draws, locals>>
    /\ df_fixed' = df
    /\ pc' = "save"
    /\ UNCHANGED <<input_csv, output_csv, df, results, console, ml_vars>>

\* df_fixed.to_csv("corrected_crop_dataset.csv", index=False)
ToCsv ==
    /\ pc = "save"
    /\ output_csv' = df_fixed
    /\ console' = "Fixed dataset saved as 'corrected_crop_dataset.csv'"
    /\ pc' = "done"
    /\ UNCHANGED <<input_csv, df, results, df_fixed, rng, draws, locals, ml_vars>>


(***************************************************************************)
(* The raw datasets the run may find on disk.                              *)
(***************************************************************************)
\* feature_names of predict.py: the twelve columns update_row assigns, in the
\* order it assigns them
feature_names ==
    <<"N", "P", "K", "temperature_c", "humidity_pct", "pH", "rainfall_mm",
      "organic_carbon", "soil_moisture",
      "wind_speed_ms", "solar_radiation_wm2", "evapotranspiration_mm">>

Range(s) == {s[i] : i \in 1..Len(s)}

upper(s) ==
    [i \in 1..Len(s) |->
        IF \E j \in 1..Len(LowerChars) : LowerChars[j] = s[i]
        THEN UpperChars[CHOOSE j \in 1..Len(LowerChars) : LowerChars[j] = s[i]]
        ELSE s[i]]

CatalogKeys ==
    {crop_profiles[i].key : i \in 1..Len(crop_profiles)}
    \cup {crop_season_map[i].key : i \in 1..Len(crop_season_map)}

\* crop cells: every catalog key as written, in lower case, in upper case and
\* padded with whitespace, and names no catalog holds
CropInputs ==
    CatalogKeys
    \cup {lower(k) : k \in CatalogKeys}
    \cup {upper(k) : k \in CatalogKeys}
    \cup {<<" ">> \o k \o <<" ", "\t">> : k \in CatalogKeys}
    \cup {<<"\t">> \o lower(k) : k \in CatalogKeys}
    \cup {<<"u", "n", "k", "n", "o", "w", "n", "_", "c", "r", "o", "p", "_", "x", "y", "z">>,
          <<"R", "i", "c", "e", "s">>, <<"R", "i", " ", "c", "e">>, <<>>, <<" ">>, NaN}

\* rows of the datasets with several rows
SampleRows ==
    {[crop |-> <<"W", "h", "e", "a", "t">>, district |-> "X"],
     [crop |-> <<" ", "w", "h", "e", "a", "t", " ">>, district |-> "Y"],
     [crop |-> <<"J", "u", "t", "e">>, district |-> "Y"],
     [crop |-> <<"u", "n", "k", "n", "o", "w", "n", "_", "c", "r", "o", "p", "_", "x", "y", "z">>,
      district |-> "X"]}

\* column layouts: the plain one, one that already holds two feature columns,
\* one without a crop column, one that already holds all twelve feature columns
Layouts ==
    {<<"crop", "district">>,
     <<"district", "humidity_pct", "crop", "N">>,
     <<"district">>,
     <<"district", "crop">> \o feature_names}

\* the cell of a raw row under a column; a feature column holds a stale value
raw_cell(column, sample) ==
    IF column = "crop" THEN sample.crop
    ELSE IF column = "district" THEN sample.district
    ELSE 999900

raw_row(columns, sample) ==
    [i \in 1..Len(columns) |-> <<columns[i], raw_cell(columns[i], sample)>>]

raw_frame(columns, samples) ==
    frame(columns, [i \in 1..Len(samples) |-> raw_row(columns, samples[i])])

RawDatasets ==
    {raw_frame(columns, samples) :
        columns \in Layouts,
        samples \in UNION {[1..n -> SampleRows] : n \in 0..MaxRows}}
    \cup {raw_frame(<<"crop", "district">>, <<[crop |-> c, district |-> "X"]>>) :
            c \in CropInputs}

MlIdle ==
    /\ model_pkl = Absent
    /\ train_pc = "idle"
    /\ predict_pc = "idle"
    /\ encoder = None
    /\ user_input = None
    /\ features_df = None
    /\ probabilities = None
    /\ top_3_indices = None
    /\ printed = None

Init ==
    /\ input_csv \in {Absent} \cup RawDatasets
    /\ output_csv = Absent
    /\ df = Unset
    /\ results = <<>>
    /\ df_fixed = Unset
    /\ pc = "start"
    /\ console = ""
    /\ rng \in 0..RandRes
    /\ draws = 0
    /\ locals = Unset
    /\ MlIdle

Next == ReadCsv \/ ReadCsvNotFound \/ ApplyRow \/ ApplyKeyError \/ ApplyEmpty \/ ToCsv

Spec == Init /\ [][Next]_vars

(***************************************************************************)
(* main.py: the Trainer.                                                   *)
(***************************************************************************)
feature_cols ==
    <<"N", "P", "K", "pH", "organic_carbon", "soil_moisture",
      "temperature_c", "humidity_pct", "rainfall_mm">>

\* code points in increasing order, as far as crop names use them
Charset == <<"\t", "\n", " ">> \o UpperChars \o <<"_">> \o LowerChars
char_code(c) == CHOOSE i \in 1..Len(Charset) : Charset[i] = c

\* a < b for two str
RECURSIVE str_less(_, _)
str_less(a, b) ==
    IF b = <<>> THEN FALSE
    ELSE IF a = <<>> THEN TRUE
    ELSE IF Head(a) # Head(b) THEN char_code(Head(a)) < char_code(Head(b))
    ELSE str_less(Tail(a), Tail(b))

\* LabelEncoder.fit: classes_ = the distinct labels in increasing order
RECURSIVE sorted_unique(_)
sorted_unique(S) ==
    IF S = {} THEN <<>>
    ELSE LET least == CHOOSE a \in S : \A b \in S \ {a} : str_less(a, b)
         IN  <<least>> \o sorted_unique(S \ {least})

\* y = df['crop']
crop_column(frm) == [i \in 1..Len(frm.rows) |-> get_item(frm.rows[i], "crop")]

count_of(y, label) == Cardinality({i \in 1..Len(y) : y[i] = label})

\* train_test_split(X, y, test_size=0.20, stratify=y) succeeds: some rows on both
\* sides, two rows of every class at least, a row per class on each side
split_ok(y) ==
    LET n == Len(y)
        n_test == (n + 4) \div 5
        n_train == n - n_test
        n_classes == Cardinality(Range(y))
    IN  /\ n > 0
        /\ n_train > 0
        /\ \A label \in Range(y) : count_of(y, label) >= 2
        /\ n_train >= n_classes
        /\ n_test >= n_classes

\* except FileNotFoundError: print(...); return
TrainNotFound ==
    /\ train_pc = "idle"
    /\ ~output_csv.exists
    /\ train_pc' = "returned"
    /\ UNCHANGED <<output_csv, fix_vars, encoder, model_pkl, predict_pc, user_input, features_df,
                   probabilities, top_3_indices, printed>>

\* X = df[feature_cols]; y = df['crop'] with one of the columns missing
TrainKeyError ==
    /\ train_pc = "idle"
    /\ output_csv.exists
    /\ ~(Range(feature_cols) \cup {"crop"} \subseteq Range(output_csv.columns))
    /\ train_pc' = "KeyError"
    /\ UNCHANGED <<output_csv, fix_vars, encoder, model_pkl, predict_pc, user_input, features_df,
                   probabilities, top_3_indices, printed>>

\* train_test_split raises ValueError
TrainSplitError ==
    /\ train_pc = "idle"
    /\ output_csv.exists
    /\ Range(feature_cols) \cup {"crop"} \subseteq Range(output_csv.columns)
    /\ ~split_ok(crop_column(output_csv))
    /\ train_pc' = "ValueError"
    /\ UNCHANGED <<output_csv, fix_vars, encoder, model_pkl, predict_pc, user_input, features_df,
                   probabilities, top_3_indices, printed>>

\* model.fit(X_train, y_train); joblib.dump(model, ...); joblib.dump(le, ...)
TrainFit ==
    /\ train_pc = "idle"
    /\ output_csv.exists
    /\ Range(feature_cols) \cup {"crop"} \subseteq Range(output_csv.columns)
    /\ split_ok(crop_column(output_csv))
    /\ model_pkl' = [exists |-> TRUE,
                     fitted_by |-> "main.py",
                     feature_names_in |-> feature_cols,
                     classes |-> sorted_unique(Range(crop_column(output_csv)))]
    /\ train_pc' = "saved"
    /\ UNCHANGED <<output_csv, fix_vars, encoder, predict_pc, user_input, features_df,
                   probabilities, top_3_indices, printed>>

(***************************************************************************)
(* predict.py: the Predictor.                                              *)
(***************************************************************************)
Sum(p) == LET RECURSIVE upto(_)
              upto(i) == IF i = 0 THEN 0 ELSE p[i] + upto(i - 1)
          IN  upto(Len(p))

\* the vectors predict_proba may return for n classes, in units of 1 / Votes
ProbaVectors(n) == {p \in [1..n -> 0..Votes] : Sum(p) = Votes}

\* np.argsort(p) with the default kind, which is not stable: an order of the
\* indices 0 .. n-1 by increasing probability, equal ones in any order
ArgSorts(p) ==
    {o \in [1..Len(p) -> 0..(Len(p) - 1)] :
        /\ \A i, j \in 1..Len(p) : i # j => o[i] # o[j]
        /\ \A i \in 1..(Len(p) - 1) : p[o[i] + 1] <= p[o[i + 1] + 1]}

\* order[-3:]
last_3(order) ==
    IF Len(order) <= 3 THEN order ELSE SubSeq(order, Len(order) - 2, Len(order))

\* order[-3:] without the reversal
top_3_ascending(order) == last_3(order)

\* order[-3:][::-1]
top_3(order) ==
    [i \in 1..Len(last_3(order)) |-> last_3(order)[Len(last_3(order)) + 1 - i]]

\* the line printed for rank i: crop.upper() for the first, crop for the others,
\* and the confidence top_3_scores[i] * 100, here in units of 1 / Votes percent
line(i, crop, p) ==
    [rank |-> i, crop |-> IF i = 1 THEN upper(crop) ELSE crop, confidence |-> p * 100]

\* except FileNotFoundError: print("Error: Files not found..."); return
PredictNoModel ==
    /\ predict_pc = "idle"
    /\ ~model_pkl.exists
    /\ predict_pc' = "returned"
    /\ UNCHANGED <<output_csv, fix_vars, model_pkl, train_pc, encoder, user_input, features_df,
                   probabilities, top_3_indices, printed>>

\* except ValueError: print("Invalid Input! ..."); return
PredictInvalidInput ==
    /\ predict_pc = "idle"
    /\ model_pkl.exists
    /\ user_input = "not numeric"
    /\ encoder' = model_pkl.classes
    /\ predict_pc' = "invalid input"
    /\ UNCHANGED <<output_csv, fix_vars, model_pkl, train_pc, user_input, features_df,
                   probabilities, top_3_indices, printed>>

\* model.predict_proba(features_df) raises ValueError: the frame's columns are
\* not the columns the model was fitted on
PredictRejected ==
    /\ predict_pc = "idle"
    /\ model_pkl.exists
    /\ user_input = "numeric"
    /\ encoder' = model_pkl.classes
    /\ features_df' = feature_names
    /\ feature_names # model_pkl.feature_names_in
    /\ predict_pc' = "ValueError"
    /\ UNCHANGED <<output_csv, fix_vars, model_pkl, train_pc, user_input,
                   probabilities, top_3_indices, printed>>

\* predict_proba returns; the top 3 are taken and printed.  With fewer than
\* three classes the loop over range(3) raises IndexError after the lines it had
PredictTop3 ==
    /\ predict_pc = "idle"
    /\ model_pkl.exists
    /\ user_input = "numeric"
    /\ encoder' = model_pkl.classes
    /\ features_df' = feature_names
    /\ feature_names = model_pkl.feature_names_in
    /\ \E p \in ProbaVectors(Len(model_pkl.classes)) :
       \E order \in ArgSorts(p) :
       \E top \in {top_3(order)} :
          /\ probabilities' = p
          /\ top_3_indices' = top
          /\ printed' = [i \in 1..Len(top) |->
                            line(i, model_pkl.classes[top[i] + 1], p[top[i] + 1])]
          /\ predict_pc' = IF Len(top) < 3 THEN "IndexError" ELSE "done"
    /\ UNCHANGED <<output_csv, fix_vars, model_pkl, train_pc, user_input>>

(***************************************************************************)
(* The files main.py and predict.py may find on disk.                      *)
(***************************************************************************)
\* labels of the corrected datasets, and how many rows each may have
TrainLabels == <<<<"W", "h", "e", "a", "t">>, <<"R", "i", "c", "e">>>>
RowCounts == {0, 1, 5}

corrected_row(columns, label) ==
    [i \in 1..Len(columns) |-> <<columns[i], IF columns[i] = "crop" THEN label ELSE 0>>]

RECURSIVE repeat(_, _)
repeat(x, n) == IF n = 0 THEN <<>> ELSE <<x>> \o repeat(x, n - 1)

\* count[i] rows of label i, for each label in turn
corrected_frame(columns, count) ==
    frame(columns,
          repeat(corrected_row(columns, TrainLabels[1]), count[1])
          \o repeat(corrected_row(columns, TrainLabels[2]), count[2]))

CorrectedDatasets ==
    {corrected_frame(columns, count) :
        columns \in {<<"crop", "district">> \o feature_names, <<"crop", "district">>},
        count \in [1..Len(TrainLabels) -> RowCounts]}

\* a model and encoder saved before the run by a trainer that fitted all twelve
\* columns predict.py names (its message points to main.ipynb)
StoredModels ==
    {[exists |-> TRUE,
      fitted_by |-> "main.ipynb",
      feature_names_in |-> feature_names,
      classes |-> sorted_unique({crop_profiles[i].key : i \in 1..n})] :
        n \in 1..MaxClasses}

FixIdle ==
    /\ input_csv = Absent
    /\ df = Unset
    /\ results = <<>>
    /\ df_fixed = Unset
    /\ pc = "idle"
    /\ console = ""
    /\ rng = 0
    /\ draws = 0
    /\ locals = Unset

InitPipeline ==
    /\ FixIdle
    /\ output_csv \in {Absent} \cup CorrectedDatasets
    /\ model_pkl \in {Absent} \cup StoredModels
    /\ train_pc = "idle"
    /\ predict_pc = "idle"
    /\ encoder = None
    /\ user_input \in {"numeric", "not numeric"}
    /\ features_df = None
    /\ probabilities = None
    /\ top_3_indices = None
    /\ printed = None

NextPipeline ==
    \/ TrainNotFound \/ TrainKeyError \/ TrainSplitError \/ TrainFit
    \/ PredictNoModel \/ PredictInvalidInput \/ PredictRejected \/ PredictTop3

SpecPipeline == InitPipeline /\ [][NextPipeline]_vars

(***************************************************************************)
(* Reference operators the properties are stated with.  They describe the  *)
(* result of a lookup; the operators above compute it as the code does.    *)
(***************************************************************************)
\* s from its first to its last character that is not whitespace
TrimRef(s) ==
    LET solid == {k \in 1..Len(s) : s[k] \notin Whitespace}
    IN  IF solid = {} THEN <<>>
        ELSE SubSeq(s, CHOOSE k \in solid : \A m \in solid : k <= m,
                       CHOOSE k \in solid : \A m \in solid : k >= m)

same_letter(x, y) ==
    x = y \/ \E k \in 1..Len(UpperChars) : {x, y} = {UpperChars[k], LowerChars[k]}

equal_ignoring_case(a, b) ==
    Len(a) = Len(b) /\ \A i \in 1..Len(a) : same_letter(a[i], b[i])

\* catalog entries whose key is t, and whose key is t up to letter case
ExactProfiles(t) == {i \in 1..Len(crop_profiles) : crop_profiles[i].key = t}
NocaseProfiles(t) ==
    {i \in 1..Len(crop_profiles) : equal_ignoring_case(crop_profiles[i].key, t)}

\* the profile a trimmed crop name stands for
ProfileRef(t) ==
    IF NocaseProfiles(t) = {} THEN default_profile
    ELSE IF ExactProfiles(t) # {}
         THEN crop_profiles[CHOOSE i \in ExactProfiles(t) : TRUE].profile
         ELSE crop_profiles[CHOOSE i \in NocaseProfiles(t) : TRUE].profile

SeasonKeys == {crop_season_map[i].key : i \in 1..Len(crop_season_map)}

\* the season tag of a trimmed crop name: its own entry or "Default"
SeasonRef(t) ==
    IF t \in SeasonKeys
    THEN crop_season_map[CHOOSE i \in 1..Len(crop_season_map) :
                             crop_season_map[i].key = t].season
    ELSE "Default"

WeatherRef(t) ==
    CASE SeasonRef(t) = "Kharif" -> <<2500, 5500, 180000, 220000, 4000, 6000>>
      [] SeasonRef(t) = "Rabi" -> <<1000, 2500, 150000, 190000, 2500, 4000>>
      [] SeasonRef(t) = "Zaid" -> <<3000, 6500, 230000, 280000, 6000, 8500>>
      [] OTHER -> <<2000, 4000, 180000, 200000, 4000, 5000>>

\* the ten profile-bounded columns: the index of the lower bound in the
\* profile and the rounding step
ProfileFields ==
    <<[col |-> "N", lo |-> 1, q |-> 100], [col |-> "P", lo |-> 3, q |-> 100],
      [col |-> "K", lo |-> 5, q |-> 100], [col |-> "temperature_c", lo |-> 7, q |-> 100],
      [col |-> "humidity_pct", lo |-> 9, q |-> 100], [col |-> "pH", lo |-> 11, q |-> 10],
      [col |-> "rainfall_mm", lo |-> 13, q |-> 100]>>
WeatherFields ==
    <<[col |-> "wind_speed_ms", lo |-> 1, q |-> 10],
      [col |-> "solar_radiation_wm2", lo |-> 3, q |-> 10],
      [col |-> "evapotranspiration_mm", lo |-> 5, q |-> 10]>>

\* the row's value under every field of fields is on the rounding grid and
\* inside the interval the profile gives the field
within(row, fields, profile) ==
    \A k \in 1..Len(fields) :
        /\ has_label(row, fields[k].col)
        /\ get_item(row, fields[k].col) % fields[k].q = 0
        /\ profile[fields[k].lo] <= get_item(row, fields[k].col)
        /\ get_item(row, fields[k].col) <= profile[fields[k].lo + 1]

\* the stripped crop name of raw row i
CropOf(i) == TrimRef(str(get_item(df.rows[i], "crop")))

\* the crop cell update_row read last: the last row passed to it, or the NaN
\* of the probe row of an empty frame
LastCell ==
    IF Len(df.rows) = 0 THEN NaN ELSE get_item(df.rows[Len(results)], "crop")

(***************************************************************************)
(* C1.  Every value update_row writes to one of the ten profile-bounded    *)
(* columns lies in the closed interval of the resolved crop profile (N, P, *)
(* K, temperature_c, humidity_pct, pH, rainfall_mm) or season weather      *)
(* profile (wind_speed_ms, solar_radiation_wm2, evapotranspiration_mm),    *)
(* after rounding, also when the draw is a bound of the interval.          *)
(***************************************************************************)
C1_ValuesWithinProfile ==
    \A i \in 1..Len(results) :
        /\ within(results[i], ProfileFields, ProfileRef(CropOf(i)))
        /\ within(results[i], WeatherFields, WeatherRef(CropOf(i)))

\* a row whose pH was drawn at the upper bound and whose wind speed is strictly inside
C1_Witness ==
    \E i \in 1..Len(results) :
        /\ get_item(results[i], "pH") = ProfileRef(CropOf(i))[12]
        /\ get_item(results[i], "wind_speed_ms") > WeatherRef(CropOf(i))[1]
        /\ get_item(results[i], "wind_speed_ms") < WeatherRef(CropOf(i))[2]

(***************************************************************************)
(* C2.  The profile update_row resolves is the profile of the catalog key  *)
(* equal to the stripped crop name up to letter case (an exactly equal key *)
(* first), and it is the default profile exactly when no key equals the    *)
(* name up to letter case.  The lookup never fails.                        *)
(***************************************************************************)
C2_LookupMatchesReference ==
    locals.exists =>
        /\ locals.crop = TrimRef(str(LastCell))
        /\ Len(locals.profile) = 14
        /\ locals.profile = ProfileRef(locals.crop)
        /\ (locals.profile = default_profile <=> NocaseProfiles(locals.crop) = {})

\* a padded name in another letter case resolved to its catalog profile
C2_Witness ==
    /\ locals.exists
    /\ locals.crop # str(LastCell)
    /\ ExactProfiles(locals.crop) = {}
    /\ NocaseProfiles(locals.crop) # {}
    /\ locals.profile # default_profile

(***************************************************************************)
(* C3.  In every row update_row returns, soil_moisture is humidity_pct of  *)
(* the same returned row times 0.45, rounded to one decimal; update_row    *)
(* makes eleven draws per call, none of them for soil_moisture.            *)
(***************************************************************************)
\* v is x / 100000 rounded to a multiple of 100 thousandths, ties to even
is_round1_of(v, x) ==
    /\ v % 100 = 0
    /\ 2 * (v * 100 - x) <= 10000
    /\ 2 * (x - v * 100) <= 10000
    /\ (2 * (v * 100 - x) = 10000 \/ 2 * (x - v * 100) = 10000) => (v \div 100) % 2 = 0

C3_SoilMoistureDerived ==
    /\ \A i \in 1..Len(results) :
          is_round1_of(get_item(results[i], "soil_moisture"),
                       get_item(results[i], "humidity_pct") * 45)
    /\ locals.exists =>
          draws = 11 * (IF Len(df.rows) = 0 THEN 1 ELSE Len(results))

\* a row that came with a stale humidity and left with soil_moisture
\* derived from the new one
C3_Witness ==
    \E i \in 1..Len(results) :
        /\ has_label(df.rows[i], "humidity_pct")
        /\ get_item(df.rows[i], "humidity_pct") # get_item(results[i], "humidity_pct")
        /\ ~is_round1_of(get_item(results[i], "soil_moisture"),
                         get_item(df.rows[i], "humidity_pct") * 45)

(***************************************************************************)
(* C4.  The saved dataset has as many rows as the input, in the same       *)
(* order, and every column of the input other than the twelve feature      *)
(* columns, crop included, holds the input's value in every row.           *)
(***************************************************************************)
C4_RowsAndPassthroughKept ==
    output_csv.exists =>
        /\ Len(output_csv.rows) = Len(input_csv.rows)
        /\ \A i \in 1..Len(input_csv.rows) :
              \A c \in Range(input_csv.columns) \ Range(feature_names) :
                  /\ has_label(output_csv.rows[i], c)
                  /\ get_item(output_csv.rows[i], c) = get_item(input_csv.rows[i], c)

\* two saved rows with different crops, one of them with surrounding whitespace
C4_Witness ==
    /\ output_csv.exists
    /\ Len(output_csv.rows) = 2
    /\ get_item(output_csv.rows[1], "crop") # get_item(output_csv.rows[2], "crop")
    /\ get_item(output_csv.rows[2], "crop") # strip(get_item(output_csv.rows[2], "crop"))

(***************************************************************************)
(* C5.  The output file is written only after the input was read and every *)
(* row went through update_row; a run that finds no input file or raises   *)
(* on a row reports the cause, ends, and leaves no output file.            *)
(***************************************************************************)
C5_AllOrNothing ==
    /\ output_csv.exists =>
          /\ pc = "done"
          /\ df = input_csv
          /\ Len(results) = Len(df.rows)
          /\ output_csv.rows = results
    /\ pc = "returned" =>
          /\ ~input_csv.exists
          /\ console = "Error: Input file not found."
          /\ ~output_csv.exists
          /\ ~ENABLED Next
    /\ pc = "raised" =>
          /\ ~has_label(df.rows[1], "crop")
          /\ console = "KeyError: 'crop'"
          /\ ~output_csv.exists
          /\ ~ENABLED Next

\* a run that raised on the first of two rows and wrote nothing
C5_Witness ==
    /\ pc = "raised"
    /\ Len(df.rows) = 2
    /\ ~output_csv.exists

(***************************************************************************)
(* C6.  For every input with a crop column, whatever its number of rows,   *)
(* the columns of the saved dataset are the input's columns and the twelve *)
(* feature columns.                                                        *)
(***************************************************************************)
C6_ColumnsComplete ==
    (output_csv.exists /\ "crop" \in Range(input_csv.columns)) =>
        Range(output_csv.columns) = Range(input_csv.columns) \cup Range(feature_names)

(***************************************************************************)
(* C7.  The season is the crop_season_map entry of the stripped crop name  *)
(* when that exact key exists and "Default" otherwise; a name that differs *)
(* from a mapped key only in letter case gets that key's profile for the   *)
(* seven profile columns and the "Default" weather intervals for wind,     *)
(* solar radiation and evapotranspiration.                                 *)
(***************************************************************************)
\* the mapped keys t equals up to letter case without being one of them
CaseVariantsOf(t) == {k \in SeasonKeys : equal_ignoring_case(k, t) /\ k # t}

C9_ProfiledCropsHaveSeason ==
    (locals.exists /\ ExactProfiles(locals.crop) # {}) =>
        /\ locals.season \in {"Kharif", "Rabi", "Zaid"}
        /\ locals.w_profile # <<2000, 4000, 180000, 200000, 4000, 5000>>

(***************************************************************************)
(* C8.  What predict_crop prints from the vector predict_proba returned is *)
(* exactly three (crop, confidence) pairs, the three most probable classes *)
(* by descending confidence, and of two classes of equal probability the   *)
(* one earlier in the classifier's class order comes first.                *)
(***************************************************************************)
\* the lines are those of the indices, in order
lines_match ==
    /\ Len(printed) = Len(top_3_indices)
    /\ \A i \in 1..Len(printed) :
          /\ printed[i].rank = i
          /\ equal_ignoring_case(printed[i].crop, encoder[top_3_indices[i] + 1])
          /\ printed[i].confidence = probabilities[top_3_indices[i] + 1] * 100

\* three different classes, by descending probability, none left out more probable
top_3_descending ==
    /\ Len(top_3_indices) = 3
    /\ \A i, j \in 1..3 : i # j => top_3_indices[i] # top_3_indices[j]
    /\ \A i \in 1..2 :
          probabilities[top_3_indices[i] + 1] >= probabilities[top_3_indices[i + 1] + 1]
    /\ \A c \in 0..(Len(probabilities) - 1) :
          c \notin Range(top_3_indices) =>
              probabilities[c + 1] <= probabilities[top_3_indices[3] + 1]

\* equal probabilities: the earlier class first, among the three and before any left out
ties_earlier_first ==
    /\ \A i \in 1..(Len(top_3_indices) - 1) :
          probabilities[top_3_indices[i] + 1] = probabilities[top_3_indices[i + 1] + 1]
              => top_3_indices[i] < top_3_indices[i + 1]
    /\ \A i \in 1..Len(top_3_indices) : \A c \in 0..(Len(probabilities) - 1) :
          (c \notin Range(top_3_indices)
              /\ probabilities[c + 1] = probabilities[top_3_indices[i] + 1])
              => top_3_indices[i] < c

C8_Top3EarlierFirst ==
    predict_pc = "done" => (lines_match /\ top_3_descending /\ ties_earlier_first)

\* amended: with at least three classes, three pairs by descending confidence,
\* no class left out more probable than the third; fewer classes end in IndexError
C8_Top3Descending ==
    probabilities # None =>
        /\ lines_match
        /\ Len(probabilities) >= 3 => (predict_pc = "done" /\ top_3_descending)
        /\ Len(probabilities) < 3 => predict_pc = "IndexError"

\* three lines printed for four classes of which two tie
C8_Witness ==
    /\ predict_pc = "done"
    /\ Len(probabilities) = 4
    /\ Len(printed) = 3
    /\ printed[1].confidence > printed[2].confidence
    /\ printed[2].confidence = printed[3].confidence
    /\ printed[3].confidence > 0

(***************************************************************************)
(* C10.  The frame the Predictor passes to a classifier the Trainer saved  *)
(* has the columns the Trainer fitted it on, in the same order, so the     *)
(* classifier accepts it.                                                  *)
(***************************************************************************)
C10_PredictorMatchesTrainer ==
    (model_pkl.exists /\ model_pkl.fitted_by = "main.py" /\ features_df # None) =>
        /\ features_df = model_pkl.feature_names_in
        /\ predict_pc # "ValueError"
====
